---- MODULE Spec2Model ----
(***************************************************************************)
(* handwerk_app.py: a command line tool that keeps projects, their tasks   *)
(* and materials, and a global inventory in one JSON file.  Every command  *)
(* loads the file, reads or appends one record, and saves the whole        *)
(* document again when it appended.                                        *)
(*                                                                         *)
(* Encoding of Python values:                                              *)
(*   dict            a function from its keys (strings) to its values, and *)
(*                   from the reserved key "<keys>" to the sequence of its *)
(*                   keys in insertion order, and from the reserved key    *)
(*                   "<floats>" to the set of its keys whose value is a    *)
(*                   float                                                 *)
(*   list            a sequence                                            *)
(*   str             a string                                              *)
(*   None            the reserved string None (never an input string)      *)
(*   int, float      an integer (floats are whole-valued); the dict that   *)
(*                   holds the number says which of the two it is          *)
(*   Optional[int]   <<>> for None, <<n>> for n (argparse's --project-id)  *)
(* File contents are sequences of JSON tokens, written by JsonDump and     *)
(* read by the recursive descent parser JsonLoad.                          *)
(***************************************************************************)
EXTENDS Integers, Sequences, FiniteSets, TLC

VARIABLES
    file,           \* handwerk_data.json: [exists, text]
    DEFAULT_DATA,   \* the module-level dict of the running interpreter
    last,           \* the last command: its arguments, what it saw and did
    assigned,       \* ids handed out by project add, in order
    procs           \* concurrent invocations: position and local document

vars == <<file, DEFAULT_DATA, last, assigned, procs>>

-----------------------------------------------------------------------------
(* Bounds of the model. *)

MaxProjects == 2
MaxItems == 2
MaxDocProjects == 2
MaxDocItems == 1
MaxRaceAdds == 1

-----------------------------------------------------------------------------
(* Python values. *)

None == "<None>"

(* v is None, for v of any type: an int and a string cannot be compared. *)
IsNone(v) == ToString(v) = ToString(None)

(* a == b for ints, strings and None *)
PyEq(a, b) == ToString(a) = ToString(b)

(* The dict with the given keys, in this order, and their values in f;     *)
(* floats are the keys whose value is a float.                            *)
DictWithFloats(keys, floats, f) ==
    [k \in {keys[j] : j \in 1..Len(keys)} \cup {"<keys>", "<floats>"} |->
        IF k = "<keys>" THEN keys ELSE IF k = "<floats>" THEN floats ELSE f[k]]

Dict(keys, f) == DictWithFloats(keys, {}, f)

Keys(d) == d["<keys>"]

Floats(d) == d["<floats>"]

KeySet(d) == DOMAIN d \ {"<keys>", "<floats>"}

(* d with d[k] = float(d[k]) *)
AsFloat(d, k) == [d EXCEPT !["<floats>"] = @ \cup {k}]

EmptyDict == Dict(<<>>, <<>>)

Get(d, k, default) == IF k \in DOMAIN d THEN d[k] ELSE default

Truthy(opt) == opt # <<>> /\ opt[1] # 0

TruthyStr(s) == s # None /\ s # ""

-----------------------------------------------------------------------------
(* JSON text: a sequence of tokens. *)

Tok(k, s, n) == [k |-> k, s |-> s, n |-> n]

Punct(c) == Tok(c, "", 0)

RECURSIVE CommaJoin(_)
CommaJoin(ss) ==
    IF ss = <<>> THEN <<>>
    ELSE IF Len(ss) = 1 THEN Head(ss)
    ELSE Head(ss) \o <<Punct(",")>> \o CommaJoin(Tail(ss))

DumpStr(v) == IF v = None THEN <<Tok("null", "", 0)>> ELSE <<Tok("str", v, 0)>>

DumpInt(n) == <<Tok("int", "", n)>>

DumpFloat(q) == <<Tok("float", "", q)>>

(* The number or None under key k of dict d, written by its type. *)
DumpNum(d, k) ==
    IF IsNone(d[k]) THEN <<Tok("null", "", 0)>>
    ELSE IF k \in Floats(d) THEN DumpFloat(d[k]) ELSE DumpInt(d[k])

(* A list and a dict, given the JSON text of each item or value; a dict's  *)
(* members are written in the order of its keys.                          *)
DumpList(dumped) == <<Punct("[")>> \o CommaJoin(dumped) \o <<Punct("]")>>

DumpDict(order, dumped) ==
    LET keys == SelectSeq(order, LAMBDA k : k \in DOMAIN dumped)
    IN  <<Punct("{")>>
        \o CommaJoin([j \in 1..Len(keys) |->
               <<Tok("str", keys[j], 0), Punct(":")>> \o dumped[keys[j]]])
        \o <<Punct("}")>>

(* The keys of the dicts that to_dict builds, in the order it inserts them. *)
TaskKeys == <<"title", "due_date", "status">>

MaterialKeys == <<"name", "quantity", "unit">>

ProjectKeys == <<"id", "name", "customer", "address", "due_date", "status",
                 "notes", "tasks", "materials">>

DocKeys == <<"projects", "inventory">>

(* mutant: a serializer that leaves out the fields that are None *)
DumpTask_skip_none(t) ==
    DumpDict(Keys(t),
             [k \in {k2 \in KeySet(t) : t[k2] # None} |-> DumpStr(t[k])])

DumpTask(t) == DumpDict(Keys(t), [k \in KeySet(t) |-> DumpStr(t[k])])

DumpMaterial(m) ==
    DumpDict(Keys(m),
             [k \in KeySet(m) |->
                 IF k = "quantity" THEN DumpNum(m, k) ELSE DumpStr(m[k])])

DumpProject(p) ==
    DumpDict(Keys(p),
             [k \in KeySet(p) |->
                 IF k = "id" THEN DumpNum(p, k)
                 ELSE IF k = "tasks"
                      THEN DumpList([j \in 1..Len(p[k]) |-> DumpTask(p[k][j])])
                 ELSE IF k = "materials"
                      THEN DumpList([j \in 1..Len(p[k]) |-> DumpMaterial(p[k][j])])
                 ELSE DumpStr(p[k])])

JsonDump(data) ==
    DumpDict(Keys(data),
             [k \in KeySet(data) |->
                 IF k = "projects"
                 THEN DumpList([j \in 1..Len(data[k]) |-> DumpProject(data[k][j])])
                 ELSE DumpList([j \in 1..Len(data[k]) |-> DumpMaterial(data[k][j])])])

(* The parser: json.load.  Each Parse* returns [ok, v, i]: whether a value  *)
(* was read, the value, and the index of the first token after it; float   *)
(* says that the value is a float.                                         *)

ParseFail == [ok |-> FALSE, v |-> None, i |-> 0, float |-> FALSE]

(* A value read: v, a float or not, and the next token at i. *)
Parsed(v, i, float) == [ok |-> TRUE, v |-> v, i |-> i, float |-> float]

(* The dict of "key": value members: a key that comes again keeps its place *)
(* and takes the later value.                                               *)
DictOf(pairs) ==
    LET firsts == SelectSeq([j \in 1..Len(pairs) |-> j],
                      LAMBDA j : \A j2 \in 1..(j - 1) : pairs[j2].key # pairs[j].key)
        keys == {pairs[j].key : j \in 1..Len(pairs)}
        lastOf(k) == LET js == {j \in 1..Len(pairs) : pairs[j].key = k}
                     IN  CHOOSE j \in js : \A j2 \in js : j2 <= j
    IN  DictWithFloats([i \in 1..Len(firsts) |-> pairs[firsts[i]].key],
                       {k \in keys : pairs[lastOf(k)].float},
                       [k \in keys |-> pairs[lastOf(k)].val])

RECURSIVE ParseValue(_, _), ParseElems(_, _, _), ParseMembers(_, _, _)

ParseValue(t, i) ==
    IF i > Len(t) THEN ParseFail
    ELSE IF t[i].k = "str" THEN Parsed(t[i].s, i + 1, FALSE)
    ELSE IF t[i].k = "null" THEN Parsed(None, i + 1, FALSE)
    ELSE IF t[i].k \in {"int", "float"} THEN Parsed(t[i].n, i + 1, t[i].k = "float")
    ELSE IF t[i].k = "[" THEN
        IF i + 1 <= Len(t) /\ t[i + 1].k = "]"
        THEN Parsed(<<>>, i + 2, FALSE)
        ELSE ParseElems(t, i + 1, <<>>)
    ELSE IF t[i].k = "{" THEN
        IF i + 1 <= Len(t) /\ t[i + 1].k = "}"
        THEN Parsed(EmptyDict, i + 2, FALSE)
        ELSE ParseMembers(t, i + 1, <<>>)
    ELSE ParseFail

ParseElems(t, i, acc) ==
    LET r == ParseValue(t, i)
    IN  IF ~r.ok \/ r.i > Len(t) THEN ParseFail
        ELSE IF t[r.i].k = "," THEN ParseElems(t, r.i + 1, Append(acc, r.v))
        ELSE IF t[r.i].k = "]" THEN Parsed(Append(acc, r.v), r.i + 1, FALSE)
        ELSE ParseFail

ParseMembers(t, i, acc) ==
    IF i + 1 > Len(t) \/ t[i].k # "str" \/ t[i + 1].k # ":" THEN ParseFail
    ELSE LET r == ParseValue(t, i + 2)
             pairs == Append(acc, [key |-> t[i].s, val |-> r.v, float |-> r.float])
         IN  IF ~r.ok \/ r.i > Len(t) THEN ParseFail
             ELSE IF t[r.i].k = "," THEN ParseMembers(t, r.i + 1, pairs)
             ELSE IF t[r.i].k = "}" THEN Parsed(DictOf(pairs), r.i + 1, FALSE)
             ELSE ParseFail

(* json.load of a whole text: [ok, top, v].  top is the kind of the top     *)
(* level value; trailing tokens are "Extra data", a JSONDecodeError.       *)
JsonLoad(text) ==
    LET r == ParseValue(text, 1)
    IN  IF r.ok /\ r.i = Len(text) + 1
        THEN [ok |-> TRUE, top |-> text[1].k, v |-> r.v]
        ELSE [ok |-> FALSE, top |-> "", v |-> None]

(* The size in bytes of what json.dump(indent=2, ensure_ascii=False)       *)
(* writes for a token sequence (ASCII strings without escapes).            *)

RECURSIVE Digits(_)
Digits(a) == IF a < 10 THEN 1 ELSE 1 + Digits(a \div 10)

IntLen(n) == IF n < 0 THEN 1 + Digits(-n) ELSE Digits(n)

RECURSIVE ByteLenFrom(_, _, _)
ByteLenFrom(t, i, depth) ==
    IF i > Len(t) THEN 0
    ELSE LET k == t[i].k
             opens == k \in {"[", "{"}
             closes == k \in {"]", "}"}
             emptyOpen == opens /\ i + 1 <= Len(t) /\ t[i + 1].k \in {"]", "}"}
             afterEmpty == closes /\ i > 1 /\ t[i - 1].k \in {"[", "{"}
             here ==
                 IF k = "str" THEN Len(t[i].s) + 2
                 ELSE IF k = "null" THEN 4
                 ELSE IF k = "int" THEN IntLen(t[i].n)
                 ELSE IF k = "float" THEN IntLen(t[i].n) + 2
                 ELSE IF k = "residue" THEN t[i].n
                 ELSE IF k = ":" THEN 2
                 ELSE IF k = "," THEN 2 + 2 * depth
                 ELSE IF opens THEN (IF emptyOpen THEN 1 ELSE 2 + 2 * (depth + 1))
                 ELSE IF afterEmpty THEN 1 ELSE 2 + 2 * (depth - 1)
             d2 == IF opens THEN depth + 1 ELSE IF closes THEN depth - 1 ELSE depth
         IN  here + ByteLenFrom(t, i + 1, d2)

ByteLen(text) == ByteLenFrom(text, 1, 0)

-----------------------------------------------------------------------------
(* The store. *)

FreshDefault == Dict(DocKeys, [projects |-> <<>>, inventory |-> <<>>])

AbsentFile == [exists |-> FALSE, text |-> <<>>]

(* load_data: [ok, top, data, shared].  ok is FALSE when json.load raises   *)
(* JSONDecodeError; top is the kind of the top level JSON value; shared    *)
(* says that data's lists are the lists of DEFAULT_DATA (dict.copy() is a  *)
(* shallow copy), so that appending through data appends to them.          *)
(* mutant: an unparsable file is taken for an empty document *)
load_data_repairing(f, dd) ==
    IF ~f.exists
    THEN [ok |-> TRUE, top |-> "{", data |-> dd, shared |-> TRUE]
    ELSE LET r == JsonLoad(f.text)
         IN  IF r.ok THEN [ok |-> TRUE, top |-> r.top, data |-> r.v, shared |-> FALSE]
             ELSE [ok |-> TRUE, top |-> "{", data |-> dd, shared |-> TRUE]

load_data(f, dd) ==
    IF ~f.exists
    THEN [ok |-> TRUE, top |-> "{", data |-> dd, shared |-> TRUE]
    ELSE LET r == JsonLoad(f.text)
         IN  [ok |-> r.ok, top |-> r.top, data |-> r.v, shared |-> FALSE]

save_data(data) == [exists |-> TRUE, text |-> JsonDump(data)]

MaxOf(S, default) ==
    IF S = {} THEN default ELSE CHOOSE m \in S : \A x \in S : x <= m

(* mutant: one more than the number of projects *)
next_project_id_by_count(data) == Len(Get(data, "projects", <<>>)) + 1

(* mutant: the highest id itself, the "+ 1" forgotten *)
next_project_id_no_increment(data) ==
    LET ps == Get(data, "projects", <<>>)
    IN  MaxOf({Get(ps[j], "id", 0) : j \in 1..Len(ps)}, 0)

next_project_id(data) ==
    LET ps == Get(data, "projects", <<>>)
    IN  MaxOf({Get(ps[j], "id", 0) : j \in 1..Len(ps)}, 0) + 1

(* The id next_project_id returns is a float: max returns the first of the  *)
(* largest ids, and that one is a float.                                    *)
next_project_id_is_float(data) ==
    LET ps == Get(data, "projects", <<>>)
        top == {j \in 1..Len(ps) :
                   \A j2 \in 1..Len(ps) : Get(ps[j2], "id", 0) <= Get(ps[j], "id", 0)}
    IN  /\ ps # <<>>
        /\ "id" \in Floats(ps[CHOOSE j \in top : \A j2 \in top : j <= j2])

(* next_project_id raises TypeError: an id that is None cannot be compared  *)
(* with an int by max, nor be added to 1.                                   *)
next_project_id_raises(data) ==
    LET ps == Get(data, "projects", <<>>)
    IN  \E j \in 1..Len(ps) : IsNone(Get(ps[j], "id", 0))

(* find_project: the position of the first project whose id is project_id, *)
(* 0 for None.  The code returns the dict itself, a reference into data.   *)
find_project(data, project_id) ==
    LET ps == Get(data, "projects", <<>>)
        hits == {j \in 1..Len(ps) : PyEq(Get(ps[j], "id", None), project_id)}
    IN  IF hits = {} THEN 0 ELSE CHOOSE j \in hits : \A j2 \in hits : j <= j2

(* d.setdefault(k, []).append(x) *)
SetDefaultAppend(d, k, x) ==
    DictWithFloats(IF k \in DOMAIN d THEN Keys(d) ELSE Append(Keys(d), k),
         Floats(d),
         [kk \in KeySet(d) \cup {k} |->
             IF kk = k THEN Append(Get(d, k, <<>>), x) ELSE d[kk]])

(* project.setdefault(k, []).append(x) for the project at position j *)
AppendToProject(data, j, k, x) ==
    [data EXCEPT !.projects = [@ EXCEPT ![j] = SetDefaultAppend(@, k, x)]]

Task_to_dict(title, due_date, status) ==
    Dict(TaskKeys, [title |-> title, due_date |-> due_date, status |-> status])

Material_to_dict(name, quantity, unit) ==
    DictWithFloats(MaterialKeys, {"quantity"},
                   [name |-> name, quantity |-> quantity, unit |-> unit])

Project_to_dict(id, a) ==
    Dict(ProjectKeys,
         [id |-> id, name |-> a.name, customer |-> a.customer, address |-> a.address,
          due_date |-> a.due_date, status |-> a.status, notes |-> a.notes,
          tasks |-> <<>>, materials |-> <<>>])

-----------------------------------------------------------------------------
(* Sizes, for the guards that keep the model finite. *)

RECURSIVE SumLen(_, _)
SumLen(ps, k) ==
    IF ps = <<>> THEN 0 ELSE Len(Get(Head(ps), k, <<>>)) + SumLen(Tail(ps), k)

NumProjects(data) == Len(Get(data, "projects", <<>>))

NumItems(data) ==
    Len(Get(data, "inventory", <<>>))
    + SumLen(Get(data, "projects", <<>>), "tasks")
    + SumLen(Get(data, "projects", <<>>), "materials")

-----------------------------------------------------------------------------
(* What each handler computes from the loaded document l = load_data(): the *)
(* outcome, the document after it, and whether save_data is reached.  An    *)
(* uncaught exception ends the process before any save.                     *)

Raised(l, exc) == [outcome |-> exc, data |-> l.data, save |-> FALSE]

project_add(l, a) ==
    IF ~l.ok THEN Raised(l, "JSONDecodeError") @@ [id |-> 0, id_float |-> FALSE]
    ELSE IF l.top # "{" THEN Raised(l, "AttributeError") @@ [id |-> 0, id_float |-> FALSE]
    ELSE IF next_project_id_raises(l.data)
    THEN Raised(l, "TypeError") @@ [id |-> 0, id_float |-> FALSE]
    ELSE LET id == next_project_id(l.data)
             float == next_project_id_is_float(l.data)
             project == IF float THEN AsFloat(Project_to_dict(id, a), "id")
                        ELSE Project_to_dict(id, a)
         IN  [outcome |-> "ok",
              data |-> SetDefaultAppend(l.data, "projects", project),
              save |-> TRUE,
              id |-> id,
              id_float |-> float]

(* A row of project list cannot be formatted (TypeError): None under the   *)
(* format ":>3" or ":7", or sliced.                                        *)
RowRaises(p) ==
    \/ IsNone(Get(p, "id", None))
    \/ Get(p, "name", "") = None
    \/ Get(p, "customer", "") = None
    \/ Get(p, "status", "") = None

(* project list: listed are the projects whose rows it prints. *)
project_list(l, status) ==
    IF ~l.ok THEN Raised(l, "JSONDecodeError") @@ [listed |-> <<>>]
    ELSE IF l.top # "{" THEN Raised(l, "AttributeError") @@ [listed |-> <<>>]
    ELSE LET all == Get(l.data, "projects", <<>>)
             projects == IF TruthyStr(status)
                         THEN SelectSeq(all, LAMBDA p : Get(p, "status", None) = status)
                         ELSE all
             bad == {j \in 1..Len(projects) : RowRaises(projects[j])}
         IN  IF projects = <<>>
             THEN [outcome |-> "none", data |-> l.data, save |-> FALSE,
                   listed |-> <<>>]
             ELSE IF bad # {}
             THEN Raised(l, "TypeError")
                  @@ [listed |-> SubSeq(projects, 1,
                                     (CHOOSE j \in bad : \A j2 \in bad : j <= j2) - 1)]
             ELSE [outcome |-> "listed", data |-> l.data, save |-> FALSE,
                   listed |-> projects]

project_detail(l, project_id) ==
    IF ~l.ok THEN Raised(l, "JSONDecodeError") @@ [found |-> 0]
    ELSE IF l.top # "{" THEN Raised(l, "AttributeError") @@ [found |-> 0]
    ELSE LET j == find_project(l.data, project_id)
         IN  IF j = 0 THEN Raised(l, "not_found") @@ [found |-> 0]
             ELSE IF ~({"name", "customer"} \subseteq DOMAIN l.data.projects[j])
             THEN Raised(l, "KeyError") @@ [found |-> j]
             ELSE [outcome |-> "shown", data |-> l.data, save |-> FALSE, found |-> j]

(* mutant: the "return" after the not-found message forgotten *)
task_add_no_return(l, project_id, t) ==
    IF ~l.ok THEN Raised(l, "JSONDecodeError")
    ELSE IF l.top # "{" THEN Raised(l, "AttributeError")
    ELSE LET j == find_project(l.data, project_id)
         IN  IF j = 0 THEN [outcome |-> "not_found", data |-> l.data, save |-> TRUE]
             ELSE [outcome |-> "ok",
                   data |-> AppendToProject(l.data, j, "tasks",
                                Task_to_dict(t.title, t.due_date, t.status)),
                   save |-> TRUE]

task_add(l, project_id, t) ==
    IF ~l.ok THEN Raised(l, "JSONDecodeError")
    ELSE IF l.top # "{" THEN Raised(l, "AttributeError")
    ELSE LET j == find_project(l.data, project_id)
         IN  IF j = 0 THEN Raised(l, "not_found")
             ELSE [outcome |-> "ok",
                   data |-> AppendToProject(l.data, j, "tasks",
                                Task_to_dict(t.title, t.due_date, t.status)),
                   save |-> TRUE]

(* mutant: a project's material is booked into the inventory as well *)
material_add_both(l, m, project_id) ==
    IF ~l.ok THEN Raised(l, "JSONDecodeError")
    ELSE IF l.top # "{" THEN Raised(l, "AttributeError")
    ELSE IF Truthy(project_id)
    THEN LET j == find_project(l.data, project_id[1])
         IN  IF j = 0 THEN Raised(l, "not_found")
             ELSE [outcome |-> "ok",
                   data |-> SetDefaultAppend(
                                AppendToProject(l.data, j, "materials",
                                    Material_to_dict(m.name, m.quantity, m.unit)),
                                "inventory",
                                Material_to_dict(m.name, m.quantity, m.unit)),
                   save |-> TRUE]
    ELSE [outcome |-> "ok",
          data |-> SetDefaultAppend(l.data, "inventory",
                       Material_to_dict(m.name, m.quantity, m.unit)),
          save |-> TRUE]

material_add(l, m, project_id) ==
    IF ~l.ok THEN Raised(l, "JSONDecodeError")
    ELSE IF l.top # "{" THEN Raised(l, "AttributeError")
    ELSE IF Truthy(project_id)
    THEN LET j == find_project(l.data, project_id[1])
         IN  IF j = 0 THEN Raised(l, "not_found")
             ELSE [outcome |-> "ok",
                   data |-> AppendToProject(l.data, j, "materials",
                                Material_to_dict(m.name, m.quantity, m.unit)),
                   save |-> TRUE]
    ELSE [outcome |-> "ok",
          data |-> SetDefaultAppend(l.data, "inventory",
                       Material_to_dict(m.name, m.quantity, m.unit)),
          save |-> TRUE]

inventory_list(l) ==
    IF ~l.ok THEN Raised(l, "JSONDecodeError") @@ [listed |-> <<>>]
    ELSE IF l.top # "{" THEN Raised(l, "AttributeError") @@ [listed |-> <<>>]
    ELSE LET inventory == Get(l.data, "inventory", <<>>)
         IN  [outcome |-> IF inventory = <<>> THEN "none" ELSE "listed",
              data |-> l.data, save |-> FALSE, listed |-> inventory]

-----------------------------------------------------------------------------
(* Command line arguments. *)

ProjectArgs ==
    { [name |-> "Dach", customer |-> "Mueller", address |-> None,
       due_date |-> "2024-05-01", status |-> "offen", notes |-> None],
      [name |-> "Bad", customer |-> "Kunz", address |-> "Hof 1",
       due_date |-> None, status |-> "Offen", notes |-> None],
      [name |-> "", customer |-> "", address |-> None,
       due_date |-> None, status |-> "", notes |-> "eilig"] }

StatusFilters == {None, "offen", "Offen", ""}

TaskArgs ==
    { [title |-> "Putz", due_date |-> None, status |-> "offen"] }

MaterialArgs ==
    { [name |-> "Holz", quantity |-> 2, unit |-> "Stk"] }

ProjectIds == 0..(MaxProjects + 1)

OptProjectIds == {<<>>} \cup {<<n>> : n \in ProjectIds}

-----------------------------------------------------------------------------
(* The commands.  A handler runs from load_data to its return in one step:  *)
(* nothing else runs in its interpreter.  It is called when no command is   *)
(* under way, with arguments from the given sets; l is what its first       *)
(* statement, data = load_data(), returned.  It leaves in last what it was  *)
(* given, what it loaded and what it did.                                   *)

NoCommand == [cmd |-> "none"]

(* How far the model lets a document grow: the number of its projects, and  *)
(* of its tasks and materials together.                                     *)
Cap == [projects |-> MaxProjects, items |-> MaxItems]

ExtCap == [projects |-> MaxProjects + 1, items |-> 2]

RaceCap == [projects |-> MaxProjects, items |-> 1]

NoCap == [projects |-> 0, items |-> 0]

IdleProcs == <<>>

Effect(l, h, cap) ==
    /\ IF h.save
       THEN NumProjects(h.data) <= cap.projects /\ NumItems(h.data) <= cap.items
       ELSE TRUE
    /\ file' = IF h.save THEN save_data(h.data) ELSE file
    /\ DEFAULT_DATA' = IF l.shared THEN h.data ELSE DEFAULT_DATA
    /\ UNCHANGED procs

cmd_project_add(l, Args, cap) ==
    /\ last = NoCommand
    /\ \E a \in Args :
             LET h == project_add(l, a)
             IN  /\ Effect(l, h, cap)
                 /\ assigned' = IF h.outcome = "ok" THEN Append(assigned, h.id)
                                ELSE assigned
                 /\ last' = [cmd |-> "project_add", args |-> a, before |-> file,
                             loaded |-> l.data, outcome |-> h.outcome,
                             saved |-> h.save, id |-> h.id, id_float |-> h.id_float]

cmd_project_list(l, Filters) ==
    /\ last = NoCommand
    /\ \E status \in Filters :
             LET h == project_list(l, status)
             IN  /\ Effect(l, h, NoCap)
                 /\ last' = [cmd |-> "project_list", args |-> [status |-> status],
                             before |-> file, loaded |-> l.data,
                             outcome |-> h.outcome, saved |-> h.save,
                             listed |-> h.listed]
                 /\ UNCHANGED assigned

cmd_project_detail(l, Ids) ==
    /\ last = NoCommand
    /\ \E project_id \in Ids :
             LET h == project_detail(l, project_id)
             IN  /\ Effect(l, h, NoCap)
                 /\ last' = [cmd |-> "project_detail",
                             args |-> [project_id |-> project_id],
                             before |-> file, loaded |-> l.data,
                             outcome |-> h.outcome, saved |-> h.save,
                             found |-> h.found]
                 /\ UNCHANGED assigned

cmd_task_add(l, Ids, Args, cap) ==
    /\ last = NoCommand
    /\ \E project_id \in Ids, t \in Args :
             LET h == task_add(l, project_id, t)
             IN  /\ Effect(l, h, cap)
                 /\ last' = [cmd |-> "task_add",
                             args |-> t @@ [project_id |-> project_id],
                             before |-> file, loaded |-> l.data,
                             outcome |-> h.outcome, saved |-> h.save]
                 /\ UNCHANGED assigned

cmd_material_add(l, Args, OptIds, cap) ==
    /\ last = NoCommand
    /\ \E m \in Args, project_id \in OptIds :
             LET h == material_add(l, m, project_id)
             IN  /\ Effect(l, h, cap)
                 /\ last' = [cmd |-> "material_add",
                             args |-> m @@ [project_id |-> project_id],
                             before |-> file, loaded |-> l.data,
                             outcome |-> h.outcome, saved |-> h.save]
                 /\ UNCHANGED assigned

cmd_inventory_list(l) ==
    /\ last = NoCommand
    /\ LET h == inventory_list(l)
       IN  /\ Effect(l, h, NoCap)
           /\ last' = [cmd |-> "inventory_list", args |-> <<>>, before |-> file,
                       loaded |-> l.data, outcome |-> h.outcome, saved |-> h.save,
                       listed |-> h.listed]
           /\ UNCHANGED assigned

(* main() returns (or the uncaught exception ends it) and the interpreter   *)
(* exits: the next invocation imports the module anew.                      *)
ProcessExit ==
    /\ last # NoCommand
    /\ last' = NoCommand
    /\ DEFAULT_DATA' = FreshDefault
    /\ UNCHANGED <<file, assigned, procs>>

(* data = load_data(), the first statement of every handler *)
Loaded == load_data(file, DEFAULT_DATA)

Commands ==
    \/ cmd_project_add(Loaded, ProjectArgs, Cap)
    \/ cmd_project_list(Loaded, StatusFilters)
    \/ cmd_project_detail(Loaded, {1, MaxProjects + 1})
    \/ cmd_task_add(Loaded, {0, 1, MaxProjects + 1}, TaskArgs, Cap)
    \/ cmd_material_add(Loaded, MaterialArgs, OptProjectIds, Cap)
    \/ cmd_inventory_list(Loaded)

Init ==
    /\ file = AbsentFile
    /\ DEFAULT_DATA = FreshDefault
    /\ last = NoCommand
    /\ assigned = <<>>
    /\ procs = IdleProcs

Next == Commands \/ ProcessExit

Spec == Init /\ [][Next]_vars

-----------------------------------------------------------------------------
(* Properties of the command line tool run one invocation after another,    *)
(* from an absent data file (Spec).                                         *)

(* The document a file holds; an absent file stands for the empty one. *)
Stored(f) == IF f.exists THEN JsonLoad(f.text).v ELSE FreshDefault

StoredIds(f) ==
    LET ps == Stored(f).projects IN [j \in 1..Len(ps) |-> ps[j].id]

NamesNoProject(f, n) == \A j \in 1..Len(StoredIds(f)) : StoredIds(f)[j] # n

(* C1: from an absent file, the k-th project add gets id k: the ids handed  *)
(* out are 1, 2, 3, ... without gap or repeat, also with task add, material *)
(* add and the listing commands run in between.                             *)
C1_IdsCountUp ==
    /\ \A k \in 1..Len(assigned) : assigned[k] = k
    /\ StoredIds(file) = assigned
    /\ last.cmd = "project_add" => last.outcome = "ok" /\ last.id = Len(assigned)

C1_Witness ==
    /\ last.cmd = "project_add"
    /\ last.id >= 2
    /\ NumItems(Stored(file)) >= 1

(* C2: material add with --project-id n, n the id of no stored project,     *)
(* reports not-found, does not save and leaves the file as it was.          *)
C2_MaterialNotFound ==
    (/\ last.cmd = "material_add"
     /\ last.args.project_id # <<>>
     /\ NamesNoProject(last.before, last.args.project_id[1]))
    => (/\ last.outcome = "not_found"
        /\ ~last.saved
        /\ file = last.before)

(* C3: task add with a project id that no stored project has reports        *)
(* not-found, does not save and leaves the file as it was.                  *)
C3_TaskNotFound ==
    (/\ last.cmd = "task_add"
     /\ NamesNoProject(last.before, last.args.project_id))
    => (/\ last.outcome = "not_found"
        /\ ~last.saved
        /\ file = last.before)

C3_Witness ==
    /\ last.cmd = "task_add"
    /\ last.outcome = "not_found"
    /\ Len(StoredIds(last.before)) >= 1

(* C4: project list --status X, X any string project add can store (the     *)
(* empty string too), lists exactly the stored projects whose status is X,  *)
(* in insertion order.                                                      *)
C4_ListFiltersByStatus ==
    (last.cmd = "project_list" /\ last.args.status # None)
    => last.listed = SelectSeq(Stored(last.before).projects,
                               LAMBDA p : p.status = last.args.status)

(* C5: a material add that succeeds appends its record to the end of one    *)
(* list and changes nothing else: to inventory without --project-id, to the *)
(* materials of the named project with --project-id of an existing project. *)
C5_MaterialOneList ==
    (last.cmd = "material_add" /\ last.outcome = "ok")
    => LET old == Stored(last.before)
           new == Stored(file)
           m == Material_to_dict(last.args.name, last.args.quantity, last.args.unit)
           pid == last.args.project_id
           toInventory ==
               /\ new.inventory = Append(old.inventory, m)
               /\ new.projects = old.projects
           toProject(j) ==
               /\ new.inventory = old.inventory
               /\ new.projects =
                      [old.projects EXCEPT ![j].materials = Append(@, m)]
       IN  /\ last.saved
           /\ pid = <<>> => toInventory
           /\ (pid # <<>> /\ ~NamesNoProject(last.before, pid[1]))
                  => toProject(find_project(old, pid[1]))
           /\ toInventory \/ \E j \in 1..Len(old.projects) : toProject(j)

C5_Witness ==
    /\ last.cmd = "material_add"
    /\ last.outcome = "ok"
    /\ last.args.project_id # <<>>
    /\ \E j \in 1..Len(Stored(file).projects) :
           /\ Stored(file).projects[j].id = last.args.project_id[1]
           /\ Len(Stored(file).projects[j].materials) >= 2

-----------------------------------------------------------------------------
(* The handlers called again and again in one interpreter (a test suite, a  *)
(* program importing the module), where DEFAULT_DATA lives on between the   *)
(* calls, and the data file may be deleted between them.                    *)

HandlerReturn ==
    /\ last # NoCommand
    /\ last' = NoCommand
    /\ UNCHANGED <<file, DEFAULT_DATA, assigned, procs>>

RemoveFile ==
    /\ last = NoCommand
    /\ file.exists
    /\ file' = AbsentFile
    /\ assigned' = <<>>
    /\ UNCHANGED <<DEFAULT_DATA, last, procs>>

NextProc ==
    \/ cmd_project_add(Loaded, ProjectArgs, Cap)
    \/ cmd_project_list(Loaded, {None})
    \/ cmd_project_detail(Loaded, {1})
    \/ cmd_task_add(Loaded, {1}, TaskArgs, Cap)
    \/ cmd_material_add(Loaded, MaterialArgs, {<<>>}, Cap)
    \/ cmd_inventory_list(Loaded)
    \/ HandlerReturn
    \/ RemoveFile

SpecProc == Init /\ [][NextProc]_vars

(* C6: with the data file absent, load returns the empty document, whatever *)
(* ran before in the same interpreter.                                      *)
C6_AbsentLoadsFresh ==
    (last # NoCommand /\ ~last.before.exists) => last.loaded = FreshDefault

-----------------------------------------------------------------------------
(* The tool started on a data file it did not write itself.  The files are  *)
(* JSON texts whose "projects" and "inventory", where present, are lists of *)
(* objects, a top level list, and texts that are no JSON.                   *)

ExtProject(id) ==
    Dict(<<"id", "name", "customer", "status">>,
         [id |-> id, name |-> "Alt", customer |-> "Kunz", status |-> "offen"])

NameFirstProject ==
    Dict(<<"name", "id", "customer", "status">>,
         [id |-> 3, name |-> "Alt", customer |-> "Kunz", status |-> "offen"])

FloatIdProject == AsFloat(ExtProject(3), "id")

IntQuantityMaterial ==
    Dict(MaterialKeys, [name |-> "Holz", quantity |-> 2, unit |-> "Stk"])

MaterialProject ==
    Dict(<<"id", "name", "customer", "status", "materials">>,
         [id |-> 1, name |-> "Alt", customer |-> "Kunz", status |-> "offen",
          materials |-> <<IntQuantityMaterial>>])

NoIdProject == Dict(<<"name", "customer">>, [name |-> "Alt", customer |-> "Kunz"])

ExtProjects == {ExtProject(-5), ExtProject(0), ExtProject(3), NoIdProject}

(* Documents with a project whose id is null. *)
NullIdDoc(others) ==
    Dict(DocKeys, [projects |-> others \o <<ExtProject(None)>>, inventory |-> <<>>])

ExternalDocs ==
    {EmptyDict, Dict(<<"projects">>, [projects |-> <<>>]),
     Dict(<<"inventory">>, [inventory |-> <<>>]), FreshDefault}
    \cup {Dict(DocKeys, [projects |-> <<p>>, inventory |-> <<>>]) : p \in ExtProjects}
    \cup {Dict(DocKeys, [projects |-> <<p, q>>, inventory |-> <<>>]) :
             p, q \in ExtProjects}
    \cup {Dict(<<"inventory", "projects">>, [projects |-> ps, inventory |-> <<>>]) :
             ps \in {<<>>, <<NameFirstProject>>, <<ExtProject(-5), NameFirstProject>>}}
    \cup {Dict(DocKeys, [projects |-> ps, inventory |-> <<>>]) :
             ps \in {<<FloatIdProject>>, <<ExtProject(3), FloatIdProject>>,
                     <<FloatIdProject, ExtProject(3)>>, <<MaterialProject>>}}
    \cup {Dict(DocKeys, [projects |-> <<>>, inventory |-> <<IntQuantityMaterial>>])}

ExternalTexts ==
    {JsonDump(d) : d \in ExternalDocs}
    \cup {JsonDump(NullIdDoc(<<>>)), JsonDump(NullIdDoc(<<ExtProject(3)>>))}
    \cup {<<>>,
          <<Punct("["), Punct("]")>>,
          SubSeq(JsonDump(FreshDefault), 1, 6),
          JsonDump(FreshDefault) \o <<Tok("residue", "", 7)>>}

ExtProjectIds == {-5, 0, 1, 3}

InitExt ==
    /\ file \in {[exists |-> TRUE, text |-> t] : t \in ExternalTexts}
    /\ DEFAULT_DATA = FreshDefault
    /\ last = NoCommand
    /\ assigned = <<>>
    /\ procs = IdleProcs

NextExt ==
    \/ cmd_project_add(Loaded, {a \in ProjectArgs : a.status = "offen"}, ExtCap)
    \/ cmd_project_list(Loaded, {None, "offen"})
    \/ cmd_project_detail(Loaded, ExtProjectIds)
    \/ cmd_task_add(Loaded, ExtProjectIds, TaskArgs, ExtCap)
    \/ cmd_material_add(Loaded, MaterialArgs, {<<>>, <<0>>, <<3>>}, ExtCap)
    \/ cmd_inventory_list(Loaded)
    \/ ProcessExit

SpecExt == InitExt /\ [][NextExt]_vars

ExpectedShape(f) ==
    LET r == JsonLoad(f.text)
    IN  r.ok /\ r.top = "{" /\ {"projects", "inventory"} \subseteq DOMAIN r.v

(* C8 as claimed: a data file that exists and does not hold a document of   *)
(* the expected shape (an object with projects and inventory) makes load    *)
(* fail, and the command neither mutates nor saves.                         *)
C8_OtherShapeFailsLoad ==
    (last # NoCommand /\ last.before.exists /\ ~ExpectedShape(last.before))
    => (/\ last.outcome = "JSONDecodeError"
        /\ ~last.saved
        /\ file = last.before)

(* C8 amended: load fails exactly when the data file exists and is not      *)
(* well-formed JSON, and then the command saves nothing and the file stays  *)
(* as it was; a top level value that is no object ends the command with an  *)
(* AttributeError, again without a save.                                    *)
C8_UnparsableFailsLoad ==
    (last # NoCommand /\ last.before.exists)
    => LET r == JsonLoad(last.before.text)
       IN  /\ (last.outcome = "JSONDecodeError") <=> ~r.ok
           /\ (r.ok /\ r.top # "{") => last.outcome = "AttributeError"
           /\ (~r.ok \/ r.top # "{") => (~last.saved /\ file = last.before)

C8_Witness ==
    /\ last # NoCommand
    /\ last.cmd = "project_add"
    /\ last.outcome = "JSONDecodeError"
    /\ last.before.text # <<>>

PresentIds(data) ==
    LET ps == Get(data, "projects", <<>>)
    IN  {ps[j].id : j \in {i \in 1..Len(ps) : "id" \in DOMAIN ps[i]}}

(* C10 as claimed: the id project add assigns is max(existing ids, 0) + 1,  *)
(* at least 1 and above every id in the document.                           *)
C10_IdIsMaxWithZeroPlusOne ==
    (last.cmd = "project_add" /\ last.outcome = "ok")
    => (/\ last.id = MaxOf(PresentIds(last.loaded) \cup {0}, 0) + 1
        /\ last.id >= 1
        /\ \A n \in PresentIds(last.loaded) : last.id > n)

(* Every id of the loaded document, where present, is an integer. *)
IdsAreIntegers(data) ==
    LET ps == Get(data, "projects", <<>>)
    IN  \A j \in 1..Len(ps) :
            "id" \in DOMAIN ps[j] => (~IsNone(ps[j].id) /\ "id" \notin Floats(ps[j]))

(* C10 amended: for a document whose ids, where present, are integers, the  *)
(* id project add assigns is the integer one more than the largest id in    *)
(* the document, a project without id counting as 0, and 1 without any      *)
(* project; it is above every id in the document; it is at least 1 when the *)
(* document has no project or a project whose id is missing or not          *)
(* negative, and at most 0 when every project has a negative id.            *)
C10_IdAboveEveryId ==
    (last.cmd = "project_add" /\ last.before.exists
     /\ JsonLoad(last.before.text).ok /\ JsonLoad(last.before.text).top = "{"
     /\ IdsAreIntegers(last.loaded))
    => LET ps == Get(last.loaded, "projects", <<>>)
           ids == PresentIds(last.loaded)
           counted == ids \cup (IF \E j \in 1..Len(ps) : "id" \notin DOMAIN ps[j]
                                THEN {0} ELSE {})
                          \cup (IF ps = <<>> THEN {0} ELSE {})
           new == Stored(file).projects
       IN  /\ last.outcome = "ok"
           /\ ~last.id_float
           /\ \A n \in ids : last.id > n
           /\ \E m \in counted : last.id = m + 1 /\ \A n \in counted : n <= m
           /\ (ps = <<>> \/ \E j \in 1..Len(ps) : Get(ps[j], "id", 0) >= 0) => last.id >= 1
           /\ (ps # <<>> /\ \A j \in 1..Len(ps) : Get(ps[j], "id", 0) < 0) => last.id <= 0
           /\ new[Len(new)].id = last.id
           /\ "id" \notin Floats(new[Len(new)])
           /\ \A j \in 1..(Len(new) - 1) : "id" \in DOMAIN new[j] => new[j].id # last.id
           /\ Keys(Stored(file)) =
                  (IF "projects" \in DOMAIN last.loaded THEN Keys(last.loaded)
                   ELSE Append(Keys(last.loaded), "projects"))

C10_Witness ==
    /\ last.cmd = "project_add"
    /\ last.outcome = "ok"
    /\ last.id < 0
    /\ IdsAreIntegers(last.loaded)
    /\ Len(Get(last.loaded, "projects", <<>>)) = 2

-----------------------------------------------------------------------------
(* save_data followed by load_data, on documents of every combination of    *)
(* optional fields set and absent.                                          *)

SeqsUpTo(S, n) == UNION {[1..m -> S] : m \in 0..n}

DocTasks ==
    { <<>>,
      <<Task_to_dict("Putz", None, "offen")>>,
      <<Task_to_dict("Estrich", "2024-06-01", "erledigt"),
        Task_to_dict("Putz", None, "offen")>> }

DocMaterials ==
    { <<>>, <<Material_to_dict("Kies", -12, "kg"), Material_to_dict("Holz", 2, "Stk")>> }

DocProjectsAt(id) ==
    IF id = 1
    THEN { [Project_to_dict(id, [name |-> "Dach", customer |-> "Mueller",
                                 address |-> ad, due_date |-> du,
                                 status |-> "offen", notes |-> no])
               EXCEPT !.tasks = c[1], !.materials = c[2]] :
             ad \in {None, "Hof 1"}, du \in {None, "2024-05-01"},
             no \in {None, "eilig"},
             c \in {<<ts, <<>>>> : ts \in DocTasks}
                   \cup {<<<<>>, ms>> : ms \in DocMaterials} }
    ELSE { Project_to_dict(id, [name |-> "Bad", customer |-> "Kunz",
                                address |-> None, due_date |-> None,
                                status |-> "", notes |-> None]),
           [Project_to_dict(id, [name |-> "Bad", customer |-> "Kunz",
                                 address |-> "Hof 1", due_date |-> "2024-05-01",
                                 status |-> "Offen", notes |-> "eilig"])
               EXCEPT !.tasks = <<Task_to_dict("Putz", None, "offen")>>,
                      !.materials = <<Material_to_dict("Holz", 2, "Stk")>>] }

RECURSIVE DocProjectLists(_)
DocProjectLists(n) ==
    IF n = 0 THEN {<<>>}
    ELSE DocProjectLists(n - 1)
         \cup {Append(ps, p) : ps \in {q \in DocProjectLists(n - 1) : Len(q) = n - 1},
                               p \in DocProjectsAt(n)}

ValidDocs ==
    { Dict(DocKeys, [projects |-> ps, inventory |-> inv]) :
        ps \in DocProjectLists(MaxDocProjects),
        inv \in SeqsUpTo({Material_to_dict("Holz", 2, "Stk")}, MaxDocItems) }

InitRoundTrip ==
    /\ file = AbsentFile
    /\ DEFAULT_DATA = FreshDefault
    /\ last \in {[cmd |-> "document", data |-> d] : d \in ValidDocs}
    /\ assigned = <<>>
    /\ procs = IdleProcs

SaveDocument ==
    /\ last.cmd = "document"
    /\ file' = save_data(last.data)
    /\ last' = [cmd |-> "saved", data |-> last.data]
    /\ UNCHANGED <<DEFAULT_DATA, assigned, procs>>

LoadDocument ==
    /\ last.cmd = "saved"
    /\ last' = [cmd |-> "reloaded", data |-> last.data, result |-> Loaded]
    /\ UNCHANGED <<file, DEFAULT_DATA, assigned, procs>>

NextRoundTrip == SaveDocument \/ LoadDocument

SpecRoundTrip == InitRoundTrip /\ [][NextRoundTrip]_vars

(* C7: a document saved and loaded again comes back equal field for field,  *)
(* its sequences in the same order, whichever optional fields are set.      *)
C7_RoundTrip ==
    last.cmd = "reloaded"
    => (/\ last.result.ok
        /\ last.result.top = "{"
        /\ last.result.data = last.data)

C7_Witness ==
    /\ last.cmd = "reloaded"
    /\ Len(last.data.projects) >= 2
    /\ last.data.projects[1].address # None
    /\ last.data.projects[1].notes = None
    /\ Len(last.data.projects[1].tasks) = 2
    /\ Len(last.data.inventory) >= 1

-----------------------------------------------------------------------------
(* Invocations running at the same time, each in its own interpreter.  An   *)
(* invocation takes three steps on the data file: it loads it; save_data    *)
(* opens it for writing, which empties it; closing it writes the buffered   *)
(* text in one piece at offset 0.  Between the steps the other invocation   *)
(* may take steps of its own.  last is the log of the latest steps.         *)

Procs == {1, 2}

RaceProjectArgs == {a \in ProjectArgs : a.status # "Offen"}

(* open("w") *)
OpenForWrite(f) == [exists |-> TRUE, text |-> <<>>]

(* mutant: the file opened in append mode *)
Overwrite_appending(cur, new) == cur \o new

(* The file after text new is written at offset 0 over content cur: new,    *)
(* and behind it what of a longer cur lies beyond new's end.                *)
Overwrite(cur, new) ==
    IF ByteLen(cur) <= ByteLen(new) THEN new
    ELSE new \o <<Tok("residue", "", ByteLen(cur) - ByteLen(new))>>

InitRace ==
    /\ file = AbsentFile
    /\ DEFAULT_DATA = FreshDefault
    /\ last = <<>>
    /\ assigned = <<>>
    /\ procs = [p \in Procs |-> [pc |-> "idle", runs |-> 0]]

Event(p, ev) == [p |-> p, ev |-> ev]

(* The log keeps the last six steps: two invocations. *)
Logged(log, e) ==
    LET all == Append(log, e) IN IF Len(all) > 6 THEN Tail(all) ELSE all

(* load_data and the handler's work on its own copy, up to save_data *)
RaceLoad(p, l, h) ==
    /\ procs[p].pc = "idle"
    /\ procs[p].runs < MaxRaceAdds
    /\ IF h.save
       THEN /\ NumProjects(h.data) <= RaceCap.projects
            /\ NumItems(h.data) <= RaceCap.items
            /\ procs' = [procs EXCEPT ![p] =
                   [pc |-> "loaded", runs |-> @.runs, loaded |-> l.data,
                    data |-> h.data, text |-> JsonDump(h.data)]]
       ELSE procs' = [procs EXCEPT ![p] = [pc |-> "idle", runs |-> @.runs + 1]]
    /\ last' = Logged(last, Event(p, "load"))
    /\ UNCHANGED <<file, DEFAULT_DATA, assigned>>

race_project_add(p, l) ==
    \E a \in RaceProjectArgs : RaceLoad(p, l, project_add(l, a))

race_material_add(p, l) ==
    \E m \in MaterialArgs : RaceLoad(p, l, material_add(l, m, <<>>))

race_save_open(p) ==
    /\ procs[p].pc = "loaded"
    /\ file' = OpenForWrite(file)
    /\ procs' = [procs EXCEPT ![p].pc = "open"]
    /\ last' = Logged(last, Event(p, "open"))
    /\ UNCHANGED <<DEFAULT_DATA, assigned>>

race_save_close(p) ==
    /\ procs[p].pc = "open"
    /\ file' = [exists |-> TRUE, text |-> Overwrite(file.text, procs[p].text)]
    /\ procs' = [procs EXCEPT ![p].pc = "idle", ![p].runs = @ + 1]
    /\ last' = Logged(last, Event(p, "write"))
    /\ UNCHANGED <<DEFAULT_DATA, assigned>>

NextRace ==
    \E p \in Procs :
        \/ race_project_add(p, Loaded)
        \/ race_material_add(p, Loaded)
        \/ race_save_open(p)
        \/ race_save_close(p)

SpecRace == InitRace /\ [][NextRace]_vars

(* The last six steps are two invocations, both loaded before either opened *)
(* the file, both saved. *)
RaceTail == SubSeq(last, Len(last) - 5, Len(last))

BothLoadedBeforeSaves ==
    /\ Len(last) >= 6
    /\ RaceTail[1].ev = "load"
    /\ RaceTail[2].ev = "load"
    /\ RaceTail[1].p # RaceTail[2].p
    /\ \A i \in 3..6 : RaceTail[i].ev # "load"

LastSaver == RaceTail[6].p

FirstSaver == CHOOSE p \in Procs : p # LastSaver

SavesOverlap == RaceTail[3].ev = "open" /\ RaceTail[4].ev = "open"

HoldsDocumentOf(p) ==
    LET r == JsonLoad(file.text)
    IN  r.ok /\ r.top = "{" /\ r.v = procs[p].data

(* C9 as claimed: two invocations that both loaded before either saved      *)
(* leave the file holding what the one that saved last loaded, plus its own *)
(* record; the other's record is lost.                                      *)
C9_LastWriterWins ==
    BothLoadedBeforeSaves => HoldsDocumentOf(LastSaver)

(* C9 amended: so it is unless the two saves overlap (both opened the file  *)
(* before either wrote) and the text written last is the shorter one: then  *)
(* the file holds that text followed by the end of the other, and no longer *)
(* parses.                                                                  *)
C9_LastWriterWinsUnlessShorter ==
    BothLoadedBeforeSaves
    => LET tw == procs[LastSaver].text
           tf == procs[FirstSaver].text
       IN  /\ procs[LastSaver].loaded = procs[FirstSaver].loaded
           /\ IF SavesOverlap /\ ByteLen(tw) < ByteLen(tf)
              THEN /\ ~JsonLoad(file.text).ok
                   /\ SubSeq(file.text, 1, Len(tw)) = tw
                   /\ ByteLen(file.text) = ByteLen(tf)
              ELSE /\ HoldsDocumentOf(LastSaver)
                   /\ procs[LastSaver].data # procs[FirstSaver].data
                          => ~HoldsDocumentOf(FirstSaver)

C9_Witness ==
    /\ BothLoadedBeforeSaves
    /\ ~SavesOverlap
    /\ HoldsDocumentOf(LastSaver)
    /\ procs[LastSaver].data # procs[FirstSaver].data

=============================================================================
